---- MODULE Spec2Model ----
(***************************************************************************)
(* Model of `cast creation-code` (crates/cast/bin/cmd/creation_code.rs):   *)
(* CreationCodeArgs::run, fetch_creation_code and parse_code_output.       *)
(* One behaviour is one invocation of `run`.  The explorer and the chain   *)
(* provider are external: each answer is a nondeterministic choice taken   *)
(* at the await point where the code receives it.                          *)
(***************************************************************************)
EXTENDS Integers, Sequences, FiniteSets

\* ---------------------------------------------------------------- bounds
MaxLen == 96
MaxParams == 4
MaxAbis == 2
MaxTraces == 3
\* usize arithmetic is modulo 2^w; the model scales the width down.  The only
\* facts used are MaxLen < UsizeModulus and WordSize * MaxParams < UsizeModulus.
UsizeModulus == 65536

\* ------------------------------------------------------ program constants
WordSize == 32

\* ------------------------------------------------------------ value types
None == [some |-> FALSE]
Some(v) == [some |-> TRUE, val |-> v]

Pending == [tag |-> "Pending"]
Ok(v) == [tag |-> "Ok", val |-> v]
Err(k) == [tag |-> "Err", kind |-> k]
Panic == [tag |-> "Panic"]

IsOk(r) == r.tag = "Ok"
IsErr(r) == r.tag = "Err"

Addresses == {"0xAA", "0xBB"}
Factory == "0xFACTORY"
Hashes == {"0x01", "0x02"}

\* A byte string of the given length; the bytes depend on position and length,
\* so different sub-ranges of one string and equal ranges of two strings differ.
MkBytes(len) == [i \in 1..len |-> (7 * i + len) % 256]
Bytecodes == {MkBytes(l) : l \in 0..MaxLen}
TraceInits == {MkBytes(0), MkBytes(WordSize + 1)}
FactoryInputs == {MkBytes(4)}

TransactionRecords ==
    {[to |-> None, input |-> b] : b \in Bytecodes}
        \cup {[to |-> Some(Factory), input |-> b] : b \in FactoryInputs}

Actions == {[type |-> "Create", init |-> b] : b \in TraceInits} \cup {[type |-> "Call"]}
TraceOutputs == {[type |-> "Create", address |-> a] : a \in Addresses} \cup {[type |-> "Call"]}
TraceEntries == {[action |-> a, result |-> r] :
                    a \in Actions, r \in {None} \cup {Some(o) : o \in TraceOutputs}}

RECURSIVE SeqsUpTo(_, _)
SeqsUpTo(S, n) ==
    IF n = 0 THEN {<<>>}
    ELSE LET shorter == SeqsUpTo(S, n - 1)
         IN shorter \cup {Append(s, x) : s \in {t \in shorter : Len(t) = n - 1}, x \in S}

TraceLists == SeqsUpTo(TraceEntries, MaxTraces)

\* An ABI candidate: constructor absent, or present with `inputs` parameters.
AbiRecords == {[constructor |-> None]}
                 \cup {[constructor |-> Some([inputs |-> n])] : n \in 0..MaxParams}
AbiLists == SeqsUpTo(AbiRecords, MaxAbis)

CollaboratorErrors == {"NotFound", "CollaboratorError"}

VARIABLES
    pc,            \* position of `run`
    contract, disassemble, without_args, only_args,   \* CreationCodeArgs
    calls,         \* collaborator calls issued so far, in order
    tx_hash,       \* fetch_creation_code: creation_tx_hash
    tx_data,       \* fetch_creation_code: tx_data
    traces,        \* fetch_creation_code: traces
    fetched,       \* value returned by fetch_creation_code
    bytecode,      \* run: bytecode bound at line 57
    abi,           \* parse_code_output: the list returned by the explorer
    parsed,        \* value returned by parse_code_output
    stdout,        \* writes to standard output, in order
    result         \* value returned by run

vars == <<pc, contract, disassemble, without_args, only_args, calls, tx_hash, tx_data,
          traces, fetched, bytecode, abi, parsed, stdout, result>>

args == <<contract, disassemble, without_args, only_args>>

Init ==
    /\ pc = "run"
    /\ contract \in Addresses
    /\ disassemble \in BOOLEAN
    /\ without_args \in BOOLEAN
    /\ only_args \in BOOLEAN
    /\ calls = <<>>
    /\ tx_hash = None
    /\ tx_data = None
    /\ traces = None
    /\ fetched = Pending
    /\ bytecode = None
    /\ abi = None
    /\ parsed = Pending
    /\ stdout = <<>>
    /\ result = Pending

\* ------------------------------------------------------------- run, entry
FlagsConflict_Never(w, o) == FALSE

FlagsConflict(w, o) == w /\ o

\* `?` on a failed step: run returns the error; otherwise it goes on to `next`.
AfterStep_Swallow(r, next) == next

AfterStep(r, next) == IF IsOk(r) THEN next ELSE "done"

Propagate(r) == IF IsOk(r) THEN Pending ELSE r

RunStart ==
    /\ pc = "run"
    /\ IF FlagsConflict(without_args, only_args)
       THEN /\ pc' = "done"
            /\ result' = Err("UsageError")
       ELSE \E setup \in {Ok("clients"), Err("ConfigError")} :
                /\ pc' = AfterStep(setup, "contract_creation_data")
                /\ result' = Propagate(setup)
    /\ UNCHANGED <<args, calls, tx_hash, tx_data, traces, fetched, bytecode, abi,
                   parsed, stdout>>

\* ------------------------------------------------------ fetch_creation_code
ContractCreationData ==
    /\ pc = "contract_creation_data"
    /\ calls' = Append(calls, [op |-> "explorer.contract_creation_data", arg |-> contract])
    /\ \E resp \in {Ok(h) : h \in Hashes} \cup {Err(e) : e \in CollaboratorErrors} :
        IF IsOk(resp)
        THEN /\ tx_hash' = Some(resp.val)
             /\ pc' = "get_transaction_by_hash"
             /\ UNCHANGED <<fetched, result>>
        ELSE /\ fetched' = resp
             /\ pc' = AfterStep(resp, "fetched")
             /\ result' = Propagate(resp)
             /\ UNCHANGED tx_hash
    /\ UNCHANGED <<args, tx_data, traces, bytecode, abi, parsed, stdout>>

IsTopLevel_Inverted(tx) == tx.to.some

IsTopLevel(tx) == ~tx.to.some

GetTransactionByHash ==
    /\ pc = "get_transaction_by_hash"
    /\ calls' = Append(calls, [op |-> "provider.get_transaction_by_hash", arg |-> tx_hash.val])
    /\ \E resp \in {Ok(None)} \cup {Ok(Some(t)) : t \in TransactionRecords}
                      \cup {Err(e) : e \in CollaboratorErrors} :
        LET found == IF IsOk(resp)
                     THEN IF resp.val.some THEN Ok(resp.val.val) ELSE Err("NotFound")
                     ELSE resp
        IN IF IsOk(found)
           THEN /\ tx_data' = Some(found.val)
                /\ IF IsTopLevel(found.val)
                   THEN /\ fetched' = Ok(found.val.input)
                        /\ pc' = "fetched"
                   ELSE /\ pc' = "trace_transaction"
                        /\ UNCHANGED fetched
                /\ UNCHANGED result
           ELSE /\ fetched' = found
                /\ pc' = AfterStep(found, "fetched")
                /\ result' = Propagate(found)
                /\ UNCHANGED tx_data
    /\ UNCHANGED <<args, tx_hash, traces, bytecode, abi, parsed, stdout>>

\* One iteration of the loop over the traces; acc is creation_bytecode.
ScanStep_AnyAddress(acc, trace, target) ==
    IF trace.result.some /\ trace.result.val.type = "Create"
    THEN IF trace.action.type = "Create" THEN Some(trace.action.init) ELSE None
    ELSE acc

ScanStep(acc, trace, target) ==
    IF trace.result.some /\ trace.result.val.type = "Create"
    THEN IF trace.result.val.address = target
         THEN IF trace.action.type = "Create" THEN Some(trace.action.init) ELSE None
         ELSE acc
    ELSE acc

RECURSIVE ScanFrom(_, _, _, _)
ScanFrom(ts, target, i, acc) ==
    IF i > Len(ts) THEN acc
    ELSE ScanFrom(ts, target, i + 1, ScanStep(acc, ts[i], target))

ScanTraces(ts, target) ==
    LET creation_bytecode == ScanFrom(ts, target, 1, None)
    IN IF creation_bytecode.some THEN Ok(creation_bytecode.val) ELSE Err("NotFound")

TraceTransaction ==
    /\ pc = "trace_transaction"
    /\ calls' = Append(calls, [op |-> "provider.trace_transaction", arg |-> tx_hash.val])
    /\ \E resp \in {Ok(ts) : ts \in TraceLists} \cup {Err("CollaboratorError")} :
        LET r == IF IsOk(resp) THEN ScanTraces(resp.val, contract) ELSE resp
        IN /\ traces' = IF IsOk(resp) THEN Some(resp.val) ELSE None
           /\ fetched' = r
           /\ pc' = AfterStep(r, "fetched")
           /\ result' = Propagate(r)
    /\ UNCHANGED <<args, tx_hash, tx_data, bytecode, abi, parsed, stdout>>

\* -------------------------------------------------------- parse_code_output
IsPassthrough_OnlyArgs(w, o) == ~w /\ o

IsPassthrough(w, o) == ~w /\ ~o

\* run line 57 binds the value returned by fetch_creation_code, whose locals
\* go out of scope; parse_code_output then runs up to its first await.
ParseCodeOutput ==
    /\ pc = "fetched"
    /\ bytecode' = Some(IF IsOk(fetched) THEN fetched.val ELSE <<>>)
    /\ tx_hash' = None
    /\ tx_data' = None
    /\ traces' = None
    /\ IF IsPassthrough(without_args, only_args)
       THEN /\ parsed' = Ok(bytecode'.val)
            /\ pc' = "print"
       ELSE /\ pc' = "fetch_abi"
            /\ UNCHANGED parsed
    /\ UNCHANGED <<args, calls, fetched, abi, stdout, result>>

FirstAbi(abis) == Head(abis)

NoConstructorResult_Always(code, only) == Err("NoConstructor")

NoConstructorResult(code, only) == IF only THEN Err("NoConstructor") ELSE Ok(code)

EmptyInputsResult_EmptyArgs(code, only) == IF only THEN Ok(<<>>) ELSE Ok(code)

EmptyInputsResult(code, only) == IF only THEN Err("NoConstructorArgs") ELSE Ok(code)

ArgsSize_Unscaled(n) == n

ArgsSize(n) == n * WordSize

\* usize subtraction: with overflow checks it panics on underflow, without
\* them it wraps.
UsizeSub(a, b, checks) ==
    IF a < b /\ checks THEN Panic ELSE Ok((a - b + UsizeModulus) % UsizeModulus)

\* bytecode[..end] and bytecode[start..]: out-of-range indices panic.
SliceTo(code, end) == IF end > Len(code) THEN Panic ELSE Ok(SubSeq(code, 1, end))

SliceFrom(code, start) ==
    IF start > Len(code) THEN Panic ELSE Ok(SubSeq(code, start + 1, Len(code)))

SliceResult(code, n, w, o, checks) ==
    LET args_size == ArgsSize(n)
        at == UsizeSub(Len(code), args_size, checks)
    IN IF w THEN (IF IsOk(at) THEN SliceTo(code, at.val) ELSE Panic)
       ELSE IF o THEN (IF IsOk(at) THEN SliceFrom(code, at.val) ELSE Panic)
       ELSE Panic

\* parse_code_output after the ABI list has arrived.
ParseWithAbi(code, abis, w, o, checks) ==
    IF abis = <<>> THEN Err("AbiNotFound")
    ELSE LET a == FirstAbi(abis)
         IN IF ~a.constructor.some THEN NoConstructorResult(code, o)
            ELSE IF a.constructor.val.inputs = 0 THEN EmptyInputsResult(code, o)
            ELSE SliceResult(code, a.constructor.val.inputs, w, o, checks)

FetchAbi ==
    /\ pc = "fetch_abi"
    /\ calls' = Append(calls, [op |-> "explorer.abi", arg |-> contract])
    /\ \E resp \in {Ok(l) : l \in AbiLists} \cup {Err(e) : e \in CollaboratorErrors},
          checks \in BOOLEAN :
        LET r == IF IsOk(resp)
                 THEN ParseWithAbi(bytecode.val, resp.val, without_args, only_args, checks)
                 ELSE resp
        IN /\ abi' = IF IsOk(resp) THEN Some(resp.val) ELSE None
           /\ parsed' = r
           /\ pc' = AfterStep(r, "print")
           /\ result' = Propagate(r)
    /\ UNCHANGED <<args, tx_hash, tx_data, traces, fetched, bytecode, stdout>>

\* ------------------------------------------------------------- run, output
WriteOutput ==
    /\ pc = "print"
    /\ abi' = None
    /\ LET out == IF IsOk(parsed) THEN parsed.val ELSE <<>>
       IN IF disassemble
          THEN \E d \in {Ok("opcodes"), Err("DisassembleError")} :
                  /\ stdout' = IF IsOk(d)
                               THEN Append(stdout, [format |-> "opcodes", bytes |-> out])
                               ELSE stdout
                  /\ result' = IF IsOk(d) THEN Ok("unit") ELSE d
          ELSE /\ stdout' = Append(stdout, [format |-> "hex", bytes |-> out])
               /\ result' = Ok("unit")
    /\ pc' = "done"
    /\ UNCHANGED <<args, calls, tx_hash, tx_data, traces, fetched, bytecode, parsed>>

Next ==
    \/ RunStart
    \/ ContractCreationData
    \/ GetTransactionByHash
    \/ TraceTransaction
    \/ ParseCodeOutput
    \/ FetchAbi
    \/ WriteOutput

Spec == Init /\ [][Next]_vars


\* ================================================================ claims
CallOps == {calls[i].op : i \in 1..Len(calls)}

\* An entry matches when its action is Create and its result is a
\* CreateOutput for the target address.
IsMatch(t, target) ==
    /\ t.action.type = "Create"
    /\ t.result.some
    /\ t.result.val.type = "Create"
    /\ t.result.val.address = target

MatchingEntries(ts, target) == {i \in 1..Len(ts) : IsMatch(ts[i], target)}

CreatesTarget(t, target) ==
    /\ t.result.some
    /\ t.result.val.type = "Create"
    /\ t.result.val.address = target

LastOf(S) == CHOOSE i \in S : \A j \in S : j <= i

FirstBytes(b, k) == [i \in 1..k |-> b[i]]
LastBytes(b, k) == [i \in 1..k |-> b[Len(b) - k + i]]

\* C1: for a factory-created contract, whenever the fetched trace list has
\* at least one matching entry (action Create, result CreateOutput for the
\* target), fetch_creation_code returns the init bytes of the last matching
\* entry, whatever non-matching entries surround it.
C1_LastMatchingInit ==
    (traces.some /\ MatchingEntries(traces.val, contract) # {})
        => fetched = Ok(traces.val[LastOf(MatchingEntries(traces.val, contract))].action.init)

\* The first constructor of the fetched ABI list has n >= 1 parameters.
HasCtorArgs ==
    /\ abi.some
    /\ abi.val # <<>>
    /\ Head(abi.val).constructor.some
    /\ Head(abi.val).constructor.val.inputs >= 1

CtorInputs == Head(abi.val).constructor.val.inputs

\* What this run returned is the slice the mode asks for, and the two modes
\* split the bytecode into two adjacent parts.
SplitsExactly(code, size) ==
    /\ (without_args /\ ~only_args) =>
          (IsOk(parsed) /\ parsed.val = FirstBytes(code, Len(code) - size))
    /\ (only_args /\ ~without_args) =>
          (IsOk(parsed) /\ parsed.val = LastBytes(code, size))
    /\ \A checks \in BOOLEAN :
          LET wo == ParseWithAbi(code, abi.val, TRUE, FALSE, checks)
              oa == ParseWithAbi(code, abi.val, FALSE, TRUE, checks)
          IN /\ IsOk(wo) /\ IsOk(oa)
             /\ Len(oa.val) = size
             /\ Len(wo.val) + Len(oa.val) = Len(code)
             /\ wo.val \o oa.val = code

\* C2 as stated: for every bytecode and every constructor with N >= 1
\* parameters, OnlyArgs returns the last 32*N bytes, WithoutArgs the first
\* length-32*N bytes, and the two concatenate to the bytecode.
C2_SplitEveryBytecode ==
    HasCtorArgs => SplitsExactly(bytecode.val, 32 * CtorInputs)

\* C2 amended: the same, for every bytecode of length at least 32*N.
C2_SplitWhenLongEnough ==
    (HasCtorArgs /\ 32 * CtorInputs <= Len(bytecode.val))
        => SplitsExactly(bytecode.val, 32 * CtorInputs)

C2_Witness ==
    /\ HasCtorArgs
    /\ CtorInputs = 2
    /\ Len(bytecode.val) = 96
    /\ only_args /\ ~without_args
    /\ IsOk(parsed)
    /\ Len(parsed.val) = 64
    /\ parsed.val[1] = bytecode.val[33]

\* C3: in WithoutArgs or OnlyArgs mode with N >= 1 parameters, when 32*N
\* exceeds the bytecode length the split returns the error MalformedBytecode.
C3_MalformedBytecode ==
    (HasCtorArgs /\ 32 * CtorInputs > Len(bytecode.val))
        => parsed = Err("MalformedBytecode")

\* C4: when the creation transaction has no `to`, fetch_creation_code
\* returns exactly the transaction's input and never asks for traces.
C4_TopLevelInput ==
    (tx_data.some /\ ~tx_data.val.to.some)
        => /\ fetched = Ok(tx_data.val.input)
           /\ traces = None
           /\ "provider.trace_transaction" \notin CallOps

C4_Witness ==
    /\ tx_data.some
    /\ ~tx_data.val.to.some
    /\ Len(tx_data.val.input) > 0
    /\ fetched = Ok(tx_data.val.input)

\* C5: with both without_args and only_args set, run fails with UsageError,
\* no collaborator call is ever issued and no bytecode is produced.
C5_ConflictingFlags ==
    (without_args /\ only_args)
        => /\ calls = <<>>
           /\ stdout = <<>>
           /\ bytecode = None
           /\ fetched = Pending
           /\ parsed = Pending
           /\ pc \in {"run", "done"}
           /\ (pc = "done" => result = Err("UsageError"))

C5_Witness ==
    /\ without_args /\ only_args
    /\ pc = "done"
    /\ result = Err("UsageError")

\* C6: for a factory-created contract, when no entry of the fetched trace
\* list has a CreateOutput result for the target address, the fetch fails
\* with NotFound and no bytecode is produced.
C6_NotFoundWithoutMatch ==
    (traces.some /\ \A i \in 1..Len(traces.val) : ~CreatesTarget(traces.val[i], contract))
        => /\ fetched = Err("NotFound")
           /\ result = Err("NotFound")
           /\ bytecode = None
           /\ stdout = <<>>

C6_Witness ==
    /\ traces.some
    /\ \E i \in 1..Len(traces.val) :
          /\ traces.val[i].action.type = "Create"
          /\ traces.val[i].result.some
          /\ traces.val[i].result.val.type = "Create"
          /\ traces.val[i].result.val.address # contract
    /\ \A i \in 1..Len(traces.val) : ~CreatesTarget(traces.val[i], contract)
    /\ fetched = Err("NotFound")

\* C7: with neither without_args nor only_args set, parse_code_output
\* returns the bytecode unchanged and the ABI lookup is never issued.
C7_Passthrough ==
    (~without_args /\ ~only_args)
        => /\ "explorer.abi" \notin CallOps
           /\ abi = None
           /\ (bytecode.some => parsed = Ok(bytecode.val))
           /\ (stdout # <<>> => stdout[1].bytes = bytecode.val)

C7_Witness ==
    /\ ~without_args /\ ~only_args
    /\ bytecode.some
    /\ Len(bytecode.val) > 0
    /\ parsed = Ok(bytecode.val)
    /\ stdout # <<>>

\* C8: when the first ABI candidate has no constructor, WithoutArgs returns
\* the bytecode unchanged and OnlyArgs fails with NoConstructor.
C8_NoConstructor ==
    (abi.some /\ abi.val # <<>> /\ ~Head(abi.val).constructor.some)
        => /\ (without_args /\ ~only_args) => parsed = Ok(bytecode.val)
           /\ (only_args /\ ~without_args) =>
                 /\ parsed = Err("NoConstructor")
                 /\ result = Err("NoConstructor")
                 /\ stdout = <<>>

C8_Witness ==
    /\ abi.some /\ abi.val # <<>> /\ ~Head(abi.val).constructor.some
    /\ without_args /\ ~only_args
    /\ Len(bytecode.val) > 0
    /\ parsed = Ok(bytecode.val)

\* C9: when the first ABI candidate has a constructor with zero parameters,
\* WithoutArgs returns the bytecode unchanged and OnlyArgs fails with
\* NoConstructorArgs instead of returning an empty byte string.
C9_NoConstructorArgs ==
    (abi.some /\ abi.val # <<>> /\ Head(abi.val).constructor.some
        /\ Head(abi.val).constructor.val.inputs = 0)
        => /\ (without_args /\ ~only_args) => parsed = Ok(bytecode.val)
           /\ (only_args /\ ~without_args) =>
                 /\ parsed = Err("NoConstructorArgs")
                 /\ parsed # Err("NoConstructor")
                 /\ result = Err("NoConstructorArgs")
                 /\ stdout = <<>>

C9_Witness ==
    /\ abi.some /\ abi.val # <<>> /\ Head(abi.val).constructor.some
    /\ Head(abi.val).constructor.val.inputs = 0
    /\ only_args /\ ~without_args
    /\ parsed = Err("NoConstructorArgs")

\* Some step of the flow has failed (returned an error or panicked).
AnyFailed ==
    \/ fetched.tag \in {"Err", "Panic"}
    \/ parsed.tag \in {"Err", "Panic"}
    \/ result.tag \in {"Err", "Panic"}

\* C10: standard output is written at most once and only after the flag
\* check, fetch_creation_code and parse_code_output have all succeeded; once
\* a step has failed, no further collaborator call is issued and nothing is
\* ever written to standard output.
C10_FailFast ==
    /\ [](/\ Len(stdout) <= 1
          /\ stdout # <<>> =>
                /\ ~(without_args /\ only_args)
                /\ IsOk(fetched)
                /\ IsOk(parsed)
                /\ IsOk(result)
                /\ stdout[1].bytes = parsed.val
          /\ AnyFailed => stdout = <<>>)
    /\ [][/\ AnyFailed => (calls' = calls /\ stdout' = stdout)
          /\ stdout # <<>> => stdout' = stdout]_vars

C10_Witness ==
    /\ pc = "done"
    /\ IsOk(fetched)
    /\ IsErr(parsed)
    /\ result = parsed
    /\ Len(calls) = 3
    /\ stdout = <<>>
====
